---- MODULE Spec2Model ----
(***************************************************************************)
(* A model of the MME report tooling:                                      *)
(*   - send_reports.py / send_reports_test.py : the two dispatch variants  *)
(*     (send_file with one retry, main's per-recipient loop, the report);  *)
(*   - analyze_reports.py : extract_name_from_filename, find_best_match;   *)
(*   - create_se_folders.py : the folder generator's roster scan and       *)
(*     folder-creation loop.                                               *)
(* Text is modelled as sequences of one-character strings, so that split,  *)
(* join, strip, lower and substring search are computed, not assumed.      *)
(***************************************************************************)
EXTENDS Integers, Sequences, FiniteSets, TLC

VARIABLES
    \* ---- dispatch (send_reports.py, send_reports_test.py) ----
    variant,        \* "plain" = send_reports.py, "dated" = send_reports_test.py
    base_items,     \* the listing of the scanned parent directory
    pc,             \* position in main / send_file
    se_folders,     \* the recipients found by the folder scan
    fidx,           \* index of the recipient being processed (for folder in se_folders)
    valid_files,    \* the eligible files of the current recipient
    kidx,           \* index of the file being sent (for file in valid_files)
    attempt,        \* send_file's loop variable (for attempt in range(2))
    resp,           \* the outcome of the last requests.post call
    sent_files,     \* current recipient's sent list
    failed_files,   \* current recipient's failed list
    results,        \* per-recipient outcomes appended by main
    total_sent,
    total_failed,
    log,            \* history: one event per requests.post call (good: the endpoint
                    \* answered 200 with ok true) and per time.sleep call
    report,         \* the rendered report lines written to the log file
    \* ---- diagnostic analyzer (analyze_reports.py) ----
    a_pc,           \* position in analyze_reports.main
    a_folders,      \* main.se_folders: the names of the directories in "SE Folder"
    a_files,        \* main.report_files: the names of the report files, sorted
    analysis,       \* main.analysis: one entry per analysed file
    \* ---- folder generator (create_se_folders.py) ----
    b_pc,           \* position in create_se_folders.main
    roster,         \* column J of SE_List.xlsx, header cell first
    parent,         \* "SE Folder": "absent", "dir" or "file"
    fs,             \* the paths under "SE Folder": "absent", "dir", "file", or
                    \* "blocked" (nothing there, and mkdir raises an OS error)
    entries,        \* main.entries
    outcomes,       \* the line main printed for each entry handled so far
    stats,          \* main.stats
    history,        \* outcomes and stats of the runs completed so far
    dropped         \* the entry whose report file the operator dropped (0: none)

dvars == <<variant, base_items, pc, se_folders, fidx, valid_files, kidx, attempt,
           resp, sent_files, failed_files, results, total_sent, total_failed,
           log, report>>

avars == <<a_pc, a_folders, a_files, analysis>>

bvars == <<b_pc, roster, parent, fs, entries, outcomes, stats, history, dropped>>

\* what the dispatch scripts / the analyzer / the folder generator leave alone
notdispatch == <<avars, bvars>>
notanalyzer == <<dvars, bvars>>
notbuilder == <<dvars, avars>>

vars == <<dvars, avars, bvars>>

\* ------------------------------------------------------------------ bounds
\* The analyzer's input: the characters of the report file name and of the
\* folder names' free parts together, and the number of candidate folders.
MaxChars == 3
MaxCands == 2
MaxName == 5

\* The folder generator's input: roster rows plus paths already present under
\* "SE Folder"; and the number of runs over one roster.
MaxRoster == 3
MaxRuns == 2

\* The size of the scanned tree: items of the parent directory plus the
\* entries inside the recipient folders.
MaxNodes == 4

\* ------------------------------------------------------- program constants
MinSizePlain == 5000
MinSizeDated == 5000
RetryRange == 2

\* ----------------------------------------------------------------- helpers
StartsWith(s, c) == Len(s) > 0 /\ s[1] = c

RECURSIVE SumLen(_, _)
\* sum(len(r[field]) for r in rs)
SumLen(rs, field) ==
    IF rs = <<>> THEN 0
    ELSE Len(Head(rs)[field]) + SumLen(Tail(rs), field)

RECURSIVE Flatten(_)
Flatten(ss) == IF ss = <<>> THEN <<>> ELSE Head(ss) \o Flatten(Tail(ss))

\* ------------------------------------------------------------------- text
\* str.lower(), on the letters the model uses
LowerChar(c) ==
    CASE c = "A" -> "a"
      [] c = "B" -> "b"
      [] OTHER -> c

Lower(s) == [i \in 1..Len(s) |-> LowerChar(s[i])]

IsSpace(c) == c = " "

\* str.find(c): the first index of character c in s, 0 when there is none
RECURSIVE FindChar(_, _, _)
FindChar(s, c, i) ==
    IF i > Len(s) THEN 0
    ELSE IF s[i] = c THEN i
    ELSE FindChar(s, c, i + 1)

\* str.rfind(c): the last index of character c in s, 0 when there is none
RECURSIVE RFindChar(_, _, _)
RFindChar(s, c, i) ==
    IF i < 1 THEN 0
    ELSE IF s[i] = c THEN i
    ELSE RFindChar(s, c, i - 1)

\* s.split(c): always at least one segment
RECURSIVE Split(_, _)
Split(s, c) ==
    LET i == FindChar(s, c, 1)
    IN  IF i = 0 THEN <<s>>
        ELSE <<SubSeq(s, 1, i - 1)>> \o Split(SubSeq(s, i + 1, Len(s)), c)

\* s.split(c, 1): one or two segments
SplitOnce(s, c) ==
    LET i == FindChar(s, c, 1)
    IN  IF i = 0 THEN <<s>>
        ELSE <<SubSeq(s, 1, i - 1), SubSeq(s, i + 1, Len(s))>>

\* c.join(parts)
RECURSIVE Join(_, _)
Join(parts, c) ==
    IF parts = <<>> THEN <<>>
    ELSE IF Len(parts) = 1 THEN parts[1]
    ELSE parts[1] \o <<c>> \o Join(Tail(parts), c)

RECURSIVE LStrip(_)
LStrip(s) == IF s # <<>> /\ IsSpace(s[1]) THEN LStrip(Tail(s)) ELSE s

RECURSIVE RStrip(_)
RStrip(s) ==
    IF s # <<>> /\ IsSpace(s[Len(s)]) THEN RStrip(SubSeq(s, 1, Len(s) - 1)) ELSE s

\* s.strip()
Strip(s) == RStrip(LStrip(s))

\* s.split(): the whitespace-separated words of s
RECURSIVE Words(_)
Words(s) ==
    LET t == LStrip(s)
        i == FindChar(t, " ", 1)
    IN  IF t = <<>> THEN <<>>
        ELSE IF i = 0 THEN <<t>>
        ELSE <<SubSeq(t, 1, i - 1)>> \o Words(SubSeq(t, i + 1, Len(t)))

\* needle in hay: scan the start positions from k on
RECURSIVE FindFrom(_, _, _)
FindFrom(needle, hay, k) ==
    IF k + Len(needle) - 1 > Len(hay) THEN FALSE
    ELSE IF SubSeq(hay, k, k + Len(needle) - 1) = needle THEN TRUE
    ELSE FindFrom(needle, hay, k + 1)

Contains(needle, hay) == FindFrom(needle, hay, 1)

\* s.endswith(c)
EndsWith(s, c) == Len(s) > 0 /\ s[Len(s)] = c

\* Path(filename).stem for a file name without a path separator: the name up
\* to its last dot, when that dot is neither the first nor the last character
\* (a lone "." is the current directory, whose name is empty).
Stem(filename) ==
    LET name == IF filename = <<".">> THEN <<>> ELSE filename
        i == RFindChar(name, ".", Len(name))
    IN  IF 1 < i /\ i < Len(name) THEN SubSeq(name, 1, i - 1) ELSE name

\* The strings over alphabet of length exactly n / at most n.
StringsOfLen(alphabet, n) == [1..n -> alphabet]
StringsUpTo(alphabet, n) == UNION {StringsOfLen(alphabet, k) : k \in 0..n}

\* ============================================================ ANALYZER ====
\* an extractor that forgets to drop the area prefix
extract_name_keep_area(filename) == Strip(Stem(filename))

\* an extractor that splits on every underscore, not on the first one only
extract_name_split_all(filename) ==
    LET stem == Stem(filename)
        parts == Split(stem, "_")
    IN  IF Len(parts) = 2 THEN Strip(parts[2]) ELSE Strip(stem)

\* extract_name_from_filename
extract_name_from_filename(filename) ==
    LET stem == Stem(filename)
        parts == SplitOnce(stem, "_")
    IN  IF Len(parts) = 2 THEN Strip(parts[2]) ELSE Strip(stem)

NoMatch == [matched |-> FALSE, folder |-> <<>>, score |-> 0]
Match(folder, score) == [matched |-> TRUE, folder |-> folder, score |-> score]

\* find_best_match, first loop: the index of the first folder with an exact
\* name match, 0 when the loop ends without a return
RECURSIVE ExactLoop(_, _, _)
ExactLoop(se_lower, folders, i) ==
    IF i > Len(folders) THEN 0
    ELSE LET folder_parts == Split(folders[i], "_")
         IN  IF Len(folder_parts) >= 4
                  /\ se_lower = Lower(Join(SubSeq(folder_parts, 4, Len(folder_parts)), " "))
               THEN i
               ELSE ExactLoop(se_lower, folders, i + 1)

\* second loop: substring match
RECURSIVE SubstringLoop(_, _, _)
SubstringLoop(se_lower, folders, i) ==
    IF i > Len(folders) THEN 0
    ELSE IF Contains(se_lower, Lower(folders[i])) THEN i
    ELSE SubstringLoop(se_lower, folders, i + 1)

\* any(word in folder_lower for word in se_lower.split())
AnyWordIn(words, folder_lower) ==
    \E j \in 1..Len(words) : Contains(words[j], folder_lower)

\* third loop: partial word match
RECURSIVE WordLoop(_, _, _)
WordLoop(se_lower, folders, i) ==
    IF i > Len(folders) THEN 0
    ELSE IF AnyWordIn(Words(se_lower), Lower(folders[i])) THEN i
    ELSE WordLoop(se_lower, folders, i + 1)

\* a matcher that tries the substring rule before the exact rule
find_best_match_substring_first(se_name, folders) ==
    LET se_lower == Lower(se_name)
        e == ExactLoop(se_lower, folders, 1)
        u == SubstringLoop(se_lower, folders, 1)
        w == WordLoop(se_lower, folders, 1)
    IN  IF u # 0 THEN Match(folders[u], 80)
        ELSE IF e # 0 THEN Match(folders[e], 100)
        ELSE IF w # 0 THEN Match(folders[w], 50)
        ELSE NoMatch

\* find_best_match
find_best_match(se_name, folders) ==
    LET se_lower == Lower(se_name)
        e == ExactLoop(se_lower, folders, 1)
        u == SubstringLoop(se_lower, folders, 1)
        w == WordLoop(se_lower, folders, 1)
    IN  IF e # 0 THEN Match(folders[e], 100)
        ELSE IF u # 0 THEN Match(folders[u], 80)
        ELSE IF w # 0 THEN Match(folders[w], 50)
        ELSE NoMatch

\* The candidate folder names of the analyzer runs: a leading part of three
\* segments or of one, then a free part.
FolderLeads == {<<"A", "_", "s", "_", "1", "_">>, <<"x", "_">>}
NameAlphabet == {"a", "A", " ", "_"}
FileAlphabet == {"a", "A", " ", "_", "."}

\* The folder listings of at most n names whose free parts hold at most c
\* characters together.
RECURSIVE FolderListings(_, _)
FolderListings(n, c) ==
    IF n = 0 THEN {<<>>}
    ELSE {<<>>} \cup
         UNION {{<<lead \o t>> \o rest : rest \in FolderListings(n - 1, c - Len(t))} :
                   lead \in FolderLeads, t \in StringsUpTo(NameAlphabet, c)}

AnalyzerOff ==
    /\ a_pc = "off"
    /\ a_folders = <<>>
    /\ a_files = <<>>
    /\ analysis = <<>>

\* One report file in "Incoming Reports", any listing of "SE Folder".
AnalyzerInit ==
    /\ a_pc = "analyze"
    /\ \E k \in 0..MaxChars :
         /\ a_files \in {<<f>> : f \in StringsOfLen(FileAlphabet, k)}
         /\ a_folders \in FolderListings(MaxCands, MaxChars - k)
    /\ analysis = <<>>

\* The extensions the report files are globbed by (*.xlsx, *.xls), and none.
Extensions == {<<>>, <<".", "x", "l", "s">>, <<".", "x", "l", "s", "x">>}

\* One report file of any name of at most MaxName characters before its
\* extension; "SE Folder" is missing.
ExtractorInit ==
    /\ a_pc = "analyze"
    /\ a_files \in {<<f \o e>> : f \in StringsUpTo(FileAlphabet, MaxName), e \in Extensions}
    /\ a_folders = <<>>
    /\ analysis = <<>>

\* main: the body of "for filepath in sorted(report_files)"
AnalyzeFile ==
    /\ UNCHANGED notanalyzer
    /\ a_pc = "analyze"
    /\ Len(analysis) < Len(a_files)
    /\ LET filename == a_files[Len(analysis) + 1]
           se_name == extract_name_from_filename(filename)
           m == IF a_folders # <<>> THEN find_best_match(se_name, a_folders) ELSE NoMatch
       IN  analysis' = Append(analysis,
                              [filename |-> filename, extracted_name |-> se_name,
                               matched |-> m.matched, matched_folder |-> m.folder,
                               confidence |-> m.score])
    /\ UNCHANGED <<a_pc, a_folders, a_files>>

\* main: the loop is over, the preview is printed
AnalyzeDone ==
    /\ UNCHANGED notanalyzer
    /\ a_pc = "analyze"
    /\ Len(analysis) = Len(a_files)
    /\ a_pc' = "done"
    /\ UNCHANGED <<a_folders, a_files, analysis>>

\* ============================================================= BUILDER ====
StrCell(t) == [str |-> TRUE, text |-> t]
\* an empty cell or a cell that holds a number
NoneCell == [str |-> FALSE, text |-> <<>>]
HeaderCell == StrCell(<<"h">>)

RowPlain == <<"A", "_", "s", "_", "1", "_", "a">>
RowSameName == <<"A", "_", "s", "_", "2", "_", "A">>
RowUnderscore == <<"A", "_", "s", "_", "1", "_", "a", "_", "a">>
RowLeadingSpace == <<"A", "_", "s", "_", "1", "_", " ", "a">>
RowInnerSpace == <<"A", "_", "s", "_", "1", "_", "a", " ", "a">>
RowPadded == <<" ", "A", "_", "s", "_", "1", "_", "a", " ">>
RowPeriod == <<"A", "_", "s", "_", "1", "_", "a", ".">>
RowShort == <<"A", "_", "s">>

\* The cells a roster of the folder-generator runs is made of.
BuilderCells ==
    {StrCell(RowPlain), StrCell(RowSameName), StrCell(RowUnderscore),
     StrCell(RowLeadingSpace), StrCell(RowPadded), StrCell(RowPeriod),
     StrCell(RowShort), StrCell(<<>>), NoneCell}

\* The rows of the end-to-end runs: Area_Role_ChatId_N with several shapes of N.
EndToEndCells ==
    {StrCell(RowPlain), StrCell(RowSameName), StrCell(RowUnderscore),
     StrCell(RowLeadingSpace), StrCell(RowInnerSpace)}

\* The path names the model's file system tracks.
PathNames ==
    {Strip(c.text) : c \in {d \in BuilderCells \cup EndToEndCells : d.str /\ d.text # <<>>}}

Rosters(cells, n) == {<<HeaderCell>> \o r : r \in UNION {[1..k -> cells] : k \in 0..n}}

\* The states of "SE Folder" with at most n paths present or blocked.
FileSystems(n) ==
    UNION {{[x \in PathNames |-> IF x \in S THEN g[x] ELSE "absent"] :
               g \in [S -> {"dir", "file", "blocked"}]} :
              S \in {T \in SUBSET PathNames : Cardinality(T) <= n}}

EmptyFs == [x \in PathNames |-> "absent"]
ZeroStats == [created |-> 0, existed |-> 0, failed |-> 0, conflict |-> 0]

\* main: the loop that reads column J into entries
RECURSIVE ReadEntries(_, _)
ReadEntries(cells, row_idx) ==
    IF row_idx > Len(cells) THEN <<>>
    ELSE LET cell_value == cells[row_idx]
             folder_name == Strip(cell_value.text)
             rest == ReadEntries(cells, row_idx + 1)
         IN  IF row_idx = 1 THEN rest
             ELSE IF ~cell_value.str \/ cell_value.text = <<>> THEN rest
             ELSE IF EndsWith(folder_name, ".") \/ EndsWith(folder_name, " ") THEN rest
             ELSE <<[row |-> row_idx, folder_name |-> folder_name]>> \o rest

\* a generator that tests folder_path.is_file() instead of exists()
PathOutcome_isfile(state) ==
    IF state = "file" THEN "conflict"
    ELSE IF state = "absent" THEN "created"
    ELSE "failed"

\* a generator that calls mkdir(exist_ok=True) without looking first
PathOutcome_nolook(state) ==
    IF state = "file" THEN "conflict"
    ELSE IF state \in {"absent", "dir"} THEN "created"
    ELSE "failed"

\* main: what the loop body does with a path in the given state
PathOutcome(state) ==
    IF state \in {"dir", "file"}
      THEN IF state = "dir" THEN "existed" ELSE "conflict"
      ELSE IF state = "absent" THEN "created" ELSE "failed"

\* a generator that forgets to count the folders that already existed
Count_noexisted(st, outcome) ==
    CASE outcome = "created"  -> [st EXCEPT !.created = @ + 1]
      [] outcome = "existed"  -> st
      [] outcome = "conflict" -> [st EXCEPT !.conflict = @ + 1, !.failed = @ + 1]
      [] outcome = "failed"   -> [st EXCEPT !.failed = @ + 1]

\* main: the counters the loop body increments
Count(st, outcome) ==
    CASE outcome = "created"  -> [st EXCEPT !.created = @ + 1]
      [] outcome = "existed"  -> [st EXCEPT !.existed = @ + 1]
      [] outcome = "conflict" -> [st EXCEPT !.conflict = @ + 1, !.failed = @ + 1]
      [] outcome = "failed"   -> [st EXCEPT !.failed = @ + 1]

BuilderOff ==
    /\ b_pc = "off"
    /\ roster = <<>>
    /\ parent = "absent"
    /\ fs = EmptyFs
    /\ entries = <<>>
    /\ outcomes = <<>>
    /\ stats = ZeroStats
    /\ history = <<>>
    /\ dropped = 0

\* Any roster, any state of the parent directory.
BuilderInit ==
    /\ b_pc = "read"
    /\ \E k \in 0..MaxRoster :
         /\ \/ parent = "dir" /\ fs \in FileSystems(MaxRoster - k)
            \/ parent \in {"absent", "file"} /\ fs = EmptyFs
         /\ roster \in Rosters(BuilderCells, k)
    /\ entries = <<>>
    /\ outcomes = <<>>
    /\ stats = ZeroStats
    /\ history = <<>>
    /\ dropped = 0

\* A roster of well-formed rows, "SE Folder" not there yet.
EndToEndInit ==
    /\ b_pc = "read"
    /\ roster \in Rosters(EndToEndCells, MaxRoster)
    /\ parent = "absent"
    /\ fs = EmptyFs
    /\ entries = <<>>
    /\ outcomes = <<>>
    /\ stats = ZeroStats
    /\ history = <<>>
    /\ dropped = 0

\* main: read the roster; return when it holds no valid entry
BReadRoster ==
    /\ UNCHANGED notbuilder
    /\ b_pc = "read"
    /\ entries' = ReadEntries(roster, 1)
    /\ b_pc' = IF entries' = <<>> THEN "no_entries" ELSE "mkparent"
    /\ UNCHANGED <<roster, parent, fs, outcomes, stats, history, dropped>>

\* main: parent_dir.mkdir(exist_ok=True); a file in its place raises
BMkParent ==
    /\ UNCHANGED notbuilder
    /\ b_pc = "mkparent"
    /\ IF parent = "file"
         THEN b_pc' = "crashed" /\ parent' = parent
         ELSE b_pc' = "create" /\ parent' = "dir"
    /\ stats' = ZeroStats
    /\ outcomes' = <<>>
    /\ UNCHANGED <<roster, fs, entries, history, dropped>>

\* main: the body of "for e in entries"
BCreate ==
    /\ UNCHANGED notbuilder
    /\ b_pc = "create"
    /\ Len(outcomes) < Len(entries)
    /\ LET e == entries[Len(outcomes) + 1]
           outcome == PathOutcome(fs[e.folder_name])
       IN  /\ outcomes' = Append(outcomes, outcome)
           /\ stats' = Count(stats, outcome)
           /\ fs' = IF outcome = "created"
                      THEN [fs EXCEPT ![e.folder_name] = "dir"]
                      ELSE fs
    /\ UNCHANGED <<b_pc, roster, parent, entries, history, dropped>>

\* main: the summary after the loop
BSummary ==
    /\ UNCHANGED notbuilder
    /\ b_pc = "create"
    /\ Len(outcomes) = Len(entries)
    /\ b_pc' = "done"
    /\ history' = Append(history, [outcomes |-> outcomes, stats |-> stats])
    /\ UNCHANGED <<roster, parent, fs, entries, outcomes, stats, dropped>>

\* the operator runs the generator again on the same roster
BRunAgain ==
    /\ UNCHANGED notbuilder
    /\ b_pc = "done"
    /\ a_pc = "off"
    /\ Len(history) < MaxRuns
    /\ b_pc' = "read"
    /\ entries' = <<>>
    /\ outcomes' = <<>>
    /\ stats' = ZeroStats
    /\ UNCHANGED <<roster, parent, fs, history, dropped>>

\* The report file name Area_N.xlsx for a roster row Area_Role_ChatId_N.
ReportFileFor(row) ==
    LET parts == Split(row, "_")
    IN  parts[1] \o <<"_">> \o Join(SubSeq(parts, 4, Len(parts)), "_")
            \o <<".", "x", "l", "s", "x">>

\* The orders in which iterdir() may list the directories under "SE Folder".
DirListingsOf(f) ==
    LET dirs == {x \in PathNames : f[x] = "dir"}
    IN  {p \in [1..Cardinality(dirs) -> dirs] :
            \A i, j \in DOMAIN p : i # j => p[i] # p[j]}

\* The operator drops the report of a created entry into "Incoming Reports"
\* and starts the analyzer: main lists "SE Folder" and the report files.
DropReport ==
    /\ UNCHANGED dvars
    /\ b_pc = "done"
    /\ a_pc = "off"
    /\ \E i \in 1..Len(entries) :
         /\ outcomes[i] = "created"
         /\ Len(Split(entries[i].folder_name, "_")) >= 4
         /\ dropped' = i
         /\ a_files' = <<ReportFileFor(entries[i].folder_name)>>
    /\ a_folders' \in DirListingsOf(fs)
    /\ a_pc' = "analyze"
    /\ UNCHANGED <<analysis, b_pc, roster, parent, fs, entries, outcomes, stats, history>>

\* ============================================================ DISPATCH ====
\* Directory entries an operator may have dropped into a recipient folder:
\* a name, st_size and is_file().
EntryPool ==
    << [name |-> <<"r">>,      size |-> MinSizeDated - 1, is_file |-> TRUE],
       [name |-> <<"r">>,      size |-> MinSizeDated,     is_file |-> TRUE],
       [name |-> <<"r">>,      size |-> MinSizeDated + 1, is_file |-> TRUE],
       [name |-> <<"s">>,      size |-> MinSizeDated + 1, is_file |-> TRUE],
       [name |-> <<"~", "r">>, size |-> MinSizeDated + 1, is_file |-> TRUE],
       [name |-> <<".", "r">>, size |-> MinSizeDated + 1, is_file |-> TRUE],
       [name |-> <<"d">>,      size |-> MinSizeDated + 1, is_file |-> FALSE] >>

\* The listings of one directory with at most m entries, names distinct.
DirListings(m) ==
    LET idx == UNION {[1..n -> 1..Len(EntryPool)] : n \in 0..m}
        ok(f) == \A i, j \in DOMAIN f :
                    i < j => /\ f[i] < f[j]
                             /\ EntryPool[f[i]].name # EntryPool[f[j]].name
    IN  {[i \in DOMAIN f |-> EntryPool[f[i]]] : f \in {g \in idx : ok(g)}}

\* An item of the scanned parent directory.  kind = "recipient": a directory
\* whose name parses as a recipient folder (SE_Name_ChatId, resp.
\* Area_Role_ChatId_Name); entries is the listing of the directory the files
\* are read from (the folder itself, resp. its dated subfolder; a missing dated
\* subfolder is listed as empty).  kind = "other": anything else.
BaseItems(m) ==
    {[kind |-> "recipient", entries |-> d] : d \in DirListings(m)}
        \cup {[kind |-> "other", entries |-> <<>>]}

\* The listings of the parent directory that hold at most n nodes.
RECURSIVE BaseListings(_)
BaseListings(n) ==
    IF n = 0 THEN {<<>>}
    ELSE {<<>>} \cup
         UNION {{<<it>> \o rest : rest \in BaseListings(n - 1 - Len(it.entries))} :
                   it \in BaseItems(n - 1)}

\* The outcomes of one requests.post(...) followed by resp.json(): either an
\* exception is raised (message = str(e)), or a response comes back with a
\* status code and a JSON body holding ok and, possibly, description.
Responses ==
    { [raised |-> FALSE, status_code |-> 200, ok |-> TRUE,  has_description |-> FALSE,
       description |-> "", message |-> ""],
      [raised |-> FALSE, status_code |-> 200, ok |-> FALSE, has_description |-> TRUE,
       description |-> "Bad Request: chat not found", message |-> ""],
      [raised |-> FALSE, status_code |-> 400, ok |-> TRUE,  has_description |-> FALSE,
       description |-> "", message |-> ""],
      [raised |-> FALSE, status_code |-> 400, ok |-> FALSE, has_description |-> TRUE,
       description |-> "", message |-> ""],
      [raised |-> TRUE,  status_code |-> 0,   ok |-> FALSE, has_description |-> FALSE,
       description |-> "", message |-> "Read timed out"] }

NoResponse ==
    [raised |-> FALSE, status_code |-> 0, ok |-> FALSE, has_description |-> FALSE,
     description |-> "", message |-> ""]

\* get_se_folders / get_se_folders_with_date_subfolders
get_se_folders(items) ==
    LET keep(it) == it.kind = "recipient"
    IN  SelectSeq(items, keep)

get_se_folders_with_date_subfolders(items) ==
    LET keep(it) == it.kind = "recipient" /\ it.entries # <<>>
    IN  SelectSeq(items, keep)

\* an is_valid_file that also skips a file of exactly the minimum size
is_valid_file_over(x) ==
    IF StartsWith(x.name, "~") \/ StartsWith(x.name, ".") THEN FALSE
    ELSE IF x.size <= MinSizePlain THEN FALSE
    ELSE TRUE

\* is_valid_file of send_reports.py
is_valid_file(x) ==
    IF StartsWith(x.name, "~") \/ StartsWith(x.name, ".") THEN FALSE
    ELSE IF x.size < MinSizePlain THEN FALSE
    ELSE TRUE

\* [x for x in dir.iterdir() if x.is_file() and is_valid_file(x)]
ValidFilesPlain(listing) ==
    LET keep(x) == x.is_file /\ is_valid_file(x)
    IN  SelectSeq(listing, keep)

\* [x for x in date_subfolder.iterdir() if x.is_file() and x.stat().st_size > 5000]
ValidFilesDated(listing) ==
    LET keep(x) == x.is_file /\ x.size > MinSizeDated
    IN  SelectSeq(listing, keep)

ValidFiles(v, listing) ==
    IF v = "plain" THEN ValidFilesPlain(listing) ELSE ValidFilesDated(listing)

\* resp.status_code == 200 and resp.json().get('ok')
Accepted(r) == r.status_code = 200 /\ r.ok

\* a send_file whose missing description falls back to the function's last line
ErrorOf_fallback(r) ==
    IF r.has_description THEN r.description ELSE "Max retries exceeded"

\* resp.json().get('description', 'Unknown error')
ErrorOf(r) == IF r.has_description THEN r.description ELSE "Unknown error"

\* The report lines main renders from results and the two totals.
Line(kind, n, m, name, error) ==
    [kind |-> kind, n |-> n, m |-> m, name |-> name, error |-> error]

RecipientLines(i, r) ==
    <<Line("recipient", i, 0, <<>>, "")>>
    \o (IF r.sent # <<>>
          THEN <<Line("sent", Len(r.sent), 0, <<>>, "")>>
               \o [j \in 1..Len(r.sent) |-> Line("sent_item", 0, 0, r.sent[j], "")]
          ELSE <<>>)
    \o (IF r.failed # <<>>
          THEN <<Line("failed", Len(r.failed), 0, <<>>, "")>>
               \o [j \in 1..Len(r.failed) |->
                     Line("failed_item", 0, 0, r.failed[j].name, r.failed[j].error)]
          ELSE <<>>)

RenderReport(folders, rs, ts, tf) ==
    <<Line("header", Len(folders), 0, <<>>, ""),
      Line("totals", ts, tf, <<>>, "")>>
    \o Flatten([i \in 1..Len(rs) |-> RecipientLines(i, rs[i])])
    \o <<Line("summary", ts, tf, <<>>, "")>>

DispatchInit ==
    /\ variant \in {"plain", "dated"}
    /\ base_items \in BaseListings(MaxNodes)
    /\ pc = "start"
    /\ se_folders = <<>>
    /\ fidx = 0
    /\ valid_files = <<>>
    /\ kidx = 0
    /\ attempt = 0
    /\ resp = NoResponse
    /\ sent_files = <<>>
    /\ failed_files = <<>>
    /\ results = <<>>
    /\ total_sent = 0
    /\ total_failed = 0
    /\ log = <<>>
    /\ report = <<>>

DispatchOff ==
    /\ variant = "plain"
    /\ base_items = <<>>
    /\ pc = "off"
    /\ se_folders = <<>>
    /\ fidx = 0
    /\ valid_files = <<>>
    /\ kidx = 0
    /\ attempt = 0
    /\ resp = NoResponse
    /\ sent_files = <<>>
    /\ failed_files = <<>>
    /\ results = <<>>
    /\ total_sent = 0
    /\ total_failed = 0
    /\ log = <<>>
    /\ report = <<>>

\* main: the folder scan and the early return when it finds nothing
Scan ==
    /\ UNCHANGED notdispatch
    /\ pc = "start"
    /\ LET found == IF variant = "plain" THEN get_se_folders(base_items)
                    ELSE get_se_folders_with_date_subfolders(base_items)
       IN  /\ se_folders' = found
           /\ IF found = <<>>
                THEN pc' = "no_folders" /\ fidx' = fidx
                ELSE pc' = "folder" /\ fidx' = 1
    /\ UNCHANGED <<variant, base_items, valid_files, kidx, attempt, resp, sent_files,
                   failed_files, results, total_sent, total_failed, log, report>>

\* main: the head of "for folder in se_folders"; a recipient with no
\* eligible file gets its (empty) results entry at once
BeginFolder ==
    /\ UNCHANGED notdispatch
    /\ pc = "folder"
    /\ fidx <= Len(se_folders)
    /\ LET files == ValidFiles(variant, se_folders[fidx].entries)
       IN  /\ valid_files' = files
           /\ sent_files' = <<>>
           /\ failed_files' = <<>>
           /\ IF files # <<>>
                THEN /\ pc' = "post"
                     /\ kidx' = 1
                     /\ attempt' = 0
                     /\ UNCHANGED <<results, fidx>>
                ELSE /\ results' = Append(results, [sent |-> <<>>, failed |-> <<>>])
                     /\ fidx' = fidx + 1
                     /\ UNCHANGED <<pc, kidx, attempt>>
    /\ UNCHANGED <<variant, base_items, se_folders, resp, total_sent, total_failed,
                   log, report>>

\* a retry counter shared by the files of a run: not reset per send_file call
Return_shared(success, error) ==
    /\ IF success
         THEN /\ sent_files' = Append(sent_files, valid_files[kidx].name)
              /\ total_sent' = total_sent + 1
              /\ UNCHANGED <<failed_files, total_failed>>
         ELSE /\ failed_files' = Append(failed_files,
                                        [name |-> valid_files[kidx].name, error |-> error])
              /\ total_failed' = total_failed + 1
              /\ UNCHANGED <<sent_files, total_sent>>
    /\ IF kidx < Len(valid_files)
         THEN kidx' = kidx + 1 /\ pc' = "post"
         ELSE kidx' = kidx /\ pc' = "end_folder"
    /\ attempt' = attempt

\* a main that forgets to count a failed file
Return_nocount(success, error) ==
    /\ IF success
         THEN /\ sent_files' = Append(sent_files, valid_files[kidx].name)
              /\ total_sent' = total_sent + 1
              /\ UNCHANGED <<failed_files, total_failed>>
         ELSE /\ failed_files' = Append(failed_files,
                                        [name |-> valid_files[kidx].name, error |-> error])
              /\ UNCHANGED <<sent_files, total_sent, total_failed>>
    /\ IF kidx < Len(valid_files)
         THEN kidx' = kidx + 1 /\ pc' = "post"
         ELSE kidx' = kidx /\ pc' = "end_folder"
    /\ attempt' = 0

\* main: success, error = send_file(...) has returned for valid_files[kidx]
Return(success, error) ==
    /\ IF success
         THEN /\ sent_files' = Append(sent_files, valid_files[kidx].name)
              /\ total_sent' = total_sent + 1
              /\ UNCHANGED <<failed_files, total_failed>>
         ELSE /\ failed_files' = Append(failed_files,
                                        [name |-> valid_files[kidx].name, error |-> error])
              /\ total_failed' = total_failed + 1
              /\ UNCHANGED <<sent_files, total_sent>>
    /\ IF kidx < Len(valid_files)
         THEN kidx' = kidx + 1 /\ pc' = "post"
         ELSE kidx' = kidx /\ pc' = "end_folder"
    /\ attempt' = 0

\* a send_file without its except clause: an error raised by the second
\* attempt leaves main
Post_abort(r) ==
    /\ UNCHANGED notdispatch
    /\ pc = "post"
    /\ resp' = r
    /\ log' = Append(log, [ev |-> "post", folder |-> fidx, file |-> kidx,
                           attempt |-> attempt,
                           good |-> ~r.raised /\ r.status_code = 200 /\ r.ok])
    /\ IF ~r.raised
         THEN IF Accepted(r)
                THEN Return(TRUE, "None")
                ELSE IF attempt = 0
                       THEN /\ pc' = "sleep"
                            /\ UNCHANGED <<kidx, attempt, sent_files, failed_files,
                                           total_sent, total_failed>>
                       ELSE Return(FALSE, ErrorOf(r))
         ELSE IF attempt = 0
                THEN /\ pc' = "sleep"
                     /\ UNCHANGED <<kidx, attempt, sent_files, failed_files,
                                    total_sent, total_failed>>
                ELSE /\ pc' = "crashed"
                     /\ UNCHANGED <<kidx, attempt, sent_files, failed_files,
                                    total_sent, total_failed>>
    /\ UNCHANGED <<variant, base_items, se_folders, fidx, valid_files, results, report>>

\* a send_file whose except clause retries at once, without time.sleep
Post_nowait(r) ==
    /\ UNCHANGED notdispatch
    /\ pc = "post"
    /\ resp' = r
    /\ log' = Append(log, [ev |-> "post", folder |-> fidx, file |-> kidx,
                           attempt |-> attempt,
                           good |-> ~r.raised /\ r.status_code = 200 /\ r.ok])
    /\ IF ~r.raised
         THEN IF Accepted(r)
                THEN Return(TRUE, "None")
                ELSE IF attempt = 0
                       THEN /\ pc' = "sleep"
                            /\ UNCHANGED <<kidx, attempt, sent_files, failed_files,
                                           total_sent, total_failed>>
                       ELSE Return(FALSE, ErrorOf(r))
         ELSE IF attempt = 0
                THEN /\ pc' = "post"
                     /\ attempt' = attempt + 1
                     /\ UNCHANGED <<kidx, sent_files, failed_files,
                                    total_sent, total_failed>>
                ELSE Return(FALSE, r.message)
    /\ UNCHANGED <<variant, base_items, se_folders, fidx, valid_files, results, report>>

\* send_file: one pass of the loop body up to the sleep or the return
Post(r) ==
    /\ UNCHANGED notdispatch
    /\ pc = "post"
    /\ resp' = r
    /\ log' = Append(log, [ev |-> "post", folder |-> fidx, file |-> kidx,
                           attempt |-> attempt,
                           good |-> ~r.raised /\ r.status_code = 200 /\ r.ok])
    /\ IF ~r.raised
         THEN IF Accepted(r)
                THEN Return(TRUE, "None")
                ELSE IF attempt = 0
                       THEN /\ pc' = "sleep"
                            /\ UNCHANGED <<kidx, attempt, sent_files, failed_files,
                                           total_sent, total_failed>>
                       ELSE Return(FALSE, ErrorOf(r))
         ELSE IF attempt = 0
                THEN /\ pc' = "sleep"
                     /\ UNCHANGED <<kidx, attempt, sent_files, failed_files,
                                    total_sent, total_failed>>
                ELSE Return(FALSE, r.message)
    /\ UNCHANGED <<variant, base_items, se_folders, fidx, valid_files, results, report>>

\* send_file: time.sleep(2), then the next pass of "for attempt in range(2)";
\* when the range is used up the function falls through to its last line
Sleep ==
    /\ UNCHANGED notdispatch
    /\ pc = "sleep"
    /\ log' = Append(log, [ev |-> "sleep", folder |-> fidx, file |-> kidx,
                           attempt |-> attempt, good |-> FALSE])
    /\ IF attempt + 1 < RetryRange
         THEN /\ attempt' = attempt + 1
              /\ pc' = "post"
              /\ UNCHANGED <<kidx, sent_files, failed_files, total_sent, total_failed>>
         ELSE Return(FALSE, "Max retries exceeded")
    /\ UNCHANGED <<variant, base_items, se_folders, fidx, valid_files, resp, results,
                   report>>

\* main: results.append({...}) at the end of the loop body
EndFolder ==
    /\ UNCHANGED notdispatch
    /\ pc = "end_folder"
    /\ results' = Append(results, [sent |-> sent_files, failed |-> failed_files])
    /\ fidx' = fidx + 1
    /\ pc' = "folder"
    /\ UNCHANGED <<variant, base_items, se_folders, valid_files, kidx, attempt, resp,
                   sent_files, failed_files, total_sent, total_failed, log, report>>

\* main: render the report and write the log file
Report ==
    /\ UNCHANGED notdispatch
    /\ pc = "folder"
    /\ fidx > Len(se_folders)
    /\ report' = RenderReport(se_folders, results, total_sent, total_failed)
    /\ pc' = "done"
    /\ UNCHANGED <<variant, base_items, se_folders, fidx, valid_files, kidx, attempt,
                   resp, sent_files, failed_files, results, total_sent, total_failed,
                   log>>

DispatchNext ==
    \/ Scan
    \/ BeginFolder
    \/ \E r \in Responses : Post(r)
    \/ Sleep
    \/ EndFolder
    \/ Report

\* ------------------------------------------------- dispatch: observations
\* The requests.post calls made for file k of recipient f, in order.
Posts(f, k) ==
    LET mine(e) == e.ev = "post" /\ e.folder = f /\ e.file = k
    IN  SelectSeq(log, mine)

InSendLoop == pc \in {"post", "sleep", "end_folder"}

\* The sent and failed lists of recipient f as recorded so far.
OutcomeOf(f) ==
    IF f <= Len(results) THEN results[f]
    ELSE IF f = fidx /\ InSendLoop
           THEN [sent |-> sent_files, failed |-> failed_files]
           ELSE [sent |-> <<>>, failed |-> <<>>]

\* The eligible files of recipient f.
FilesOf(f) == ValidFiles(variant, se_folders[f].entries)

\* send_file has returned for file k of recipient f.
Settled(f, k) == k <= Len(OutcomeOf(f).sent) + Len(OutcomeOf(f).failed)

InSeq(x, s) == \E i \in 1..Len(s) : s[i] = x

SentNames(f) == OutcomeOf(f).sent
FailedNames(f) == [i \in 1..Len(OutcomeOf(f).failed) |-> OutcomeOf(f).failed[i].name]

FileSlots == {<<f, k>> \in (1..Len(se_folders)) \X (1..Len(log) + 1) :
                 k <= Len(FilesOf(f))}

\* The second attempt for the file just handled has failed and send_file has
\* returned: resp is that attempt's outcome, the last failed entry is the file's.
JustFailed ==
    /\ log # <<>>
    /\ log[Len(log)].ev = "post"
    /\ log[Len(log)].attempt = 1
    /\ ~log[Len(log)].good
    /\ log[Len(log)].folder = fidx
    /\ pc \in {"post", "end_folder"}

LastFailed == failed_files[Len(failed_files)]

\* The dispatch scripts.
Init == DispatchInit /\ AnalyzerOff /\ BuilderOff
Next == DispatchNext
Spec == Init /\ [][Next]_vars
\* The scripts are sequential programs that run every step to its end
\* (requests.post is called with timeout=30, time.sleep(2) returns).
FairSpec == Spec /\ WF_vars(Next)

\* The diagnostic analyzer.
MatchInit == AnalyzerInit /\ DispatchOff /\ BuilderOff
MatchNext ==
    \/ AnalyzeFile
    \/ AnalyzeDone
MatchSpec == MatchInit /\ [][MatchNext]_vars

\* The analyzer's name extraction over file names of every shape.
ExtractInit == ExtractorInit /\ DispatchOff /\ BuilderOff
ExtractNext ==
    \/ AnalyzeFile
    \/ AnalyzeDone
ExtractSpec == ExtractInit /\ [][ExtractNext]_vars

\* The folder generator, run up to MaxRuns times over one roster.
BuildInit == BuilderInit /\ DispatchOff /\ AnalyzerOff
BuildNext ==
    \/ BReadRoster
    \/ BMkParent
    \/ BCreate
    \/ BSummary
    \/ BRunAgain
BuildSpec == BuildInit /\ [][BuildNext]_vars

\* End to end: the folder generator, then the analyzer on a report file named
\* after a created entry.
EndToEndStart == EndToEndInit /\ DispatchOff /\ AnalyzerOff
EndToEndNext ==
    \/ BReadRoster
    \/ BMkParent
    \/ BCreate
    \/ BSummary
    \/ DropReport
    \/ AnalyzeFile
    \/ AnalyzeDone
EndToEndSpec == EndToEndStart /\ [][EndToEndNext]_vars

\* ================================================================ CLAIMS ==

\* C1: a file gets 1 attempt when the first succeeds, 2 attempts and a place in
\* the sent list when the first fails and the second succeeds, never more than
\* 2, and a file's attempts are numbered from its own first attempt whatever
\* earlier files used.
C1_AttemptsPerFile ==
    \A s \in FileSlots :
        LET f == s[1]
            k == s[2]
            p == Posts(f, k)
        IN  /\ Len(p) <= 2
            /\ \A i \in 1..Len(p) : p[i].attempt = i - 1
            /\ Len(p) = 2 => ~p[1].good
            /\ Settled(f, k) =>
                 /\ Len(p) >= 1
                 /\ p[1].good => Len(p) = 1 /\ InSeq(FilesOf(f)[k].name, SentNames(f))
                 /\ ~p[1].good => Len(p) = 2
                 /\ (Len(p) = 2 /\ p[2].good) =>
                        InSeq(FilesOf(f)[k].name, SentNames(f))

\* Two files of one recipient: the first used both attempts and failed, the
\* second failed once and was then sent.
C1_Witness ==
    /\ pc = "done"
    /\ \E f \in 1..Len(se_folders) :
         /\ Len(FilesOf(f)) >= 2
         /\ Len(Posts(f, 1)) = 2 /\ ~Posts(f, 1)[2].good
         /\ Len(Posts(f, 2)) = 2 /\ Posts(f, 2)[2].good
         /\ InSeq(FilesOf(f)[2].name, results[f].sent)

\* C2 (as claimed): after two failed attempts the file is in the failed list
\* with a non-empty error message.
C2_NonEmptyError ==
    JustFailed =>
        /\ Len(Posts(fidx, log[Len(log)].file)) = 2
        /\ failed_files # <<>>
        /\ LastFailed.name = valid_files[log[Len(log)].file].name
        /\ LastFailed.error # ""

\* C3 (as claimed): the recorded error is the final response's description when
\* it has one and "Max retries exceeded" when it has none.
C3_Original ==
    (JustFailed /\ ~resp.raised) =>
        LastFailed.error =
            (IF resp.has_description THEN resp.description ELSE "Max retries exceeded")

\* C3 (amended): the recorded error is the final response's description when it
\* has one, "Unknown error" when it has none, the raised error's message when the
\* final attempt raised; "Max retries exceeded" is never recorded.
C3_FinalError ==
    /\ JustFailed =>
         /\ failed_files # <<>>
         /\ LastFailed.name = valid_files[log[Len(log)].file].name
         /\ (~resp.raised /\ resp.has_description) => LastFailed.error = resp.description
         /\ (~resp.raised /\ ~resp.has_description) => LastFailed.error = "Unknown error"
         /\ resp.raised => LastFailed.error = resp.message
    /\ \A i \in 1..Len(failed_files) : failed_files[i].error # "Max retries exceeded"

\* A file failed twice and its final response carried no description.
C3_Witness ==
    /\ JustFailed
    /\ ~resp.raised
    /\ ~resp.has_description
    /\ LastFailed.error = "Unknown error"

\* ---- C4
\* Every eligible file of every recipient found has been attempted and is in
\* exactly one of the recipient's two lists.
AllFilesSettled ==
    /\ Len(results) = Len(se_folders)
    /\ \A f \in 1..Len(se_folders) :
         /\ Len(results[f].sent) + Len(results[f].failed) = Len(FilesOf(f))
         /\ \A k \in 1..Len(FilesOf(f)) :
              /\ Len(Posts(f, k)) >= 1
              /\ InSeq(FilesOf(f)[k].name, SentNames(f))
                   # InSeq(FilesOf(f)[k].name, FailedNames(f))

NeverInBothLists ==
    \A f \in 1..Len(se_folders) :
        \A i \in 1..Len(SentNames(f)) : ~InSeq(SentNames(f)[i], FailedNames(f))

\* C4: in a run that found a recipient, no delivery failure aborts the batch:
\* the run reaches the report step, and by then every eligible file of every
\* recipient has been attempted and sits in exactly one of sent and failed.
C4_NoAbort ==
    /\ [](NeverInBothLists /\ (pc = "done" => (AllFilesSettled /\ report # <<>>)))
    /\ (pc = "folder") ~> (pc = "done")

\* A finished run of two recipients in which every file failed.
C4_Witness ==
    /\ pc = "done"
    /\ Len(se_folders) = 2
    /\ total_failed >= 2
    /\ total_sent = 0
    /\ \A f \in 1..Len(se_folders) : results[f].failed # <<>>

\* ---- C5
LinesOfKind(kind) ==
    LET is(l) == l.kind = kind
    IN  SelectSeq(report, is)

RunOver == pc \in {"done", "no_folders"}

\* The number of files for which requests.post was called.
FilesAttempted ==
    Cardinality({<<log[i].folder, log[i].file>> : i \in {j \in 1..Len(log) : log[j].ev = "post"}})

SummaryMatches ==
    /\ Len(LinesOfKind("summary")) = 1
    /\ LinesOfKind("summary")[1].n = SumLen(results, "sent")
    /\ LinesOfKind("summary")[1].m = SumLen(results, "failed")
    /\ LinesOfKind("summary")[1].n + LinesOfKind("summary")[1].m = FilesAttempted
    /\ LinesOfKind("totals")[1].n = SumLen(results, "sent")
    /\ LinesOfKind("totals")[1].m = SumLen(results, "failed")

\* The report lists exactly the recorded outcomes, in order.
NothingDropped ==
    /\ [i \in 1..Len(LinesOfKind("sent_item")) |-> LinesOfKind("sent_item")[i].name]
         = Flatten([f \in 1..Len(results) |-> results[f].sent])
    /\ [i \in 1..Len(LinesOfKind("failed_item")) |->
            [name |-> LinesOfKind("failed_item")[i].name,
             error |-> LinesOfKind("failed_item")[i].error]]
         = Flatten([f \in 1..Len(results) |-> results[f].failed])
    /\ \A f \in 1..Len(results) :
         /\ Len(results[f].sent) + Len(results[f].failed) = Len(FilesOf(f))

\* C5 (as claimed): every run, also one that finds no recipient, ends with a
\* summary whose counts are the sums of the lists' lengths.
C5_Original ==
    RunOver => (SummaryMatches /\ NothingDropped)

\* C5 (amended): a run that found at least one recipient (also one with no
\* eligible file at all) ends with a summary whose sent and failed counts are
\* the sums of the recipients' list lengths and add up to the files attempted,
\* and the report lists every recorded outcome; a run that finds no recipient
\* ends without a summary and without an attempt.
C5_SummaryCounts ==
    /\ pc = "done" => (SummaryMatches /\ NothingDropped)
    /\ pc = "no_folders" => (report = <<>> /\ log = <<>> /\ results = <<>>)

\* A finished run with a recipient holding no eligible file and another one
\* with a sent and a failed file.
C5_Witness ==
    /\ pc = "done"
    /\ \E f \in 1..Len(results) : results[f].sent = <<>> /\ results[f].failed = <<>>
    /\ \E f \in 1..Len(results) : results[f].sent # <<>> /\ results[f].failed # <<>>

\* ---- C6
\* The part of folder name f after its third underscore, underscores read as
\* spaces.
UnderscoresOf(f) == {i \in 1..Len(f) : f[i] = "_"}

ThirdUnderscore(f) ==
    CHOOSE i \in UnderscoresOf(f) : Cardinality({j \in UnderscoresOf(f) : j < i}) = 2

NamePartOf(f) ==
    LET t == SubSeq(f, ThirdUnderscore(f) + 1, Len(f))
    IN  [i \in 1..Len(t) |-> IF t[i] = "_" THEN " " ELSE t[i]]

HasNamePart(f) == Cardinality(UnderscoresOf(f)) >= 3

SameIgnoringCase(s, t) ==
    /\ Len(s) = Len(t)
    /\ \A i \in 1..Len(s) : LowerChar(s[i]) = LowerChar(t[i])

\* s occurs in t at offset k, case ignored
OccursAt(s, t, k) ==
    /\ k + Len(s) <= Len(t)
    /\ \A i \in 1..Len(s) : LowerChar(s[i]) = LowerChar(t[k + i])

OccursIn(s, t) == \E k \in 0..Len(t) : OccursAt(s, t, k)

\* the whitespace-separated words of s: the maximal runs without a space
WordsOf(s) ==
    {SubSeq(s, a, b) : a \in 1..Len(s), b \in 1..Len(s)} \cap
    {SubSeq(s, a, b) : <<a, b>> \in
        {ab \in (1..Len(s)) \X (1..Len(s)) :
            /\ ab[1] <= ab[2]
            /\ \A i \in ab[1]..ab[2] : s[i] # " "
            /\ (ab[1] = 1 \/ s[ab[1] - 1] = " ")
            /\ (ab[2] = Len(s) \/ s[ab[2] + 1] = " ")}}

Tier100(name, f) == HasNamePart(f) /\ SameIgnoringCase(NamePartOf(f), name)
Tier80(name, f) == OccursIn(name, f)
Tier50(name, f) == \E w \in WordsOf(name) : OccursIn(w, f)

FirstWith(name, folders, T(_, _)) ==
    CHOOSE i \in 1..Len(folders) :
        T(name, folders[i]) /\ \A j \in 1..(i - 1) : ~T(name, folders[j])

SomeWith(name, folders, T(_, _)) == \E i \in 1..Len(folders) : T(name, folders[i])

\* the tiered reference rule
Reference(name, folders) ==
    IF SomeWith(name, folders, Tier100)
      THEN Match(folders[FirstWith(name, folders, Tier100)], 100)
    ELSE IF SomeWith(name, folders, Tier80)
      THEN Match(folders[FirstWith(name, folders, Tier80)], 80)
    ELSE IF SomeWith(name, folders, Tier50)
      THEN Match(folders[FirstWith(name, folders, Tier50)], 50)
    ELSE NoMatch

ResultOf(e) == [matched |-> e.matched, folder |-> e.matched_folder, score |-> e.confidence]

\* C6: for every extracted name and candidate list, the analyzer's match is the
\* tiered reference rule's: 100 with the first candidate whose name part equals
\* the name (case ignored), else 80 with the first candidate containing the
\* name, else 50 with the first candidate containing a word of it, else no
\* folder and 0.
C6_TieredMatch ==
    \A i \in 1..Len(analysis) :
        ResultOf(analysis[i]) = Reference(analysis[i].extracted_name, a_folders)

\* The second candidate matches exactly while the first one only contains the
\* name: the second is returned with score 100.
C6_Witness ==
    /\ Len(analysis) = 1
    /\ analysis[1].extracted_name # <<>>
    /\ Len(a_folders) = 2
    /\ Tier80(analysis[1].extracted_name, a_folders[1])
    /\ ~Tier100(analysis[1].extracted_name, a_folders[1])
    /\ analysis[1].confidence = 100
    /\ analysis[1].matched_folder = a_folders[2]
    /\ a_folders[2] # a_folders[1]

\* ---- C7
\* The roster row whose report file was dropped, its name part N as written
\* in the row, and the place of its folder in the analyzer's listing.
DroppedRow == entries[dropped].folder_name
RawNamePart(f) == SubSeq(f, ThirdUnderscore(f) + 1, Len(f))
Analysed == dropped # 0 /\ analysis # <<>>
PlaceOf(f) == CHOOSE j \in 1..Len(a_folders) : a_folders[j] = f

PlainNamePart(n) == (\A i \in 1..Len(n) : n[i] # "_") /\ (n = <<>> \/ ~IsSpace(n[1]))

CountOf(outs, o) == Cardinality({i \in 1..Len(outs) : outs[i] = o})

\* C8: the run after a completed run over the same roster creates nothing,
\* and reports "already existed" for every entry the earlier run created.
C8_Idempotent ==
    \A k \in 1..(Len(history) - 1) :
        /\ Len(history[k + 1].outcomes) = Len(history[k].outcomes)
        /\ history[k + 1].stats.created = 0
        /\ CountOf(history[k + 1].outcomes, "created") = 0
        /\ \A i \in 1..Len(history[k].outcomes) :
             history[k].outcomes[i] = "created" => history[k + 1].outcomes[i] = "existed"

\* Two completed runs, the first of which created a folder and could not
\* create another.
C8_Witness ==
    /\ Len(history) = 2
    /\ CountOf(history[1].outcomes, "created") >= 1
    /\ CountOf(history[1].outcomes, "created") < Len(history[1].outcomes)
    /\ history[1].stats.created >= 1

\* ---- C9
SameFolder(i, j) == entries[i].folder_name = entries[j].folder_name

\* C9 (as claimed): of two entries with the same folder name at most one is
\* created and the later one is reported "already existed".
C9_Original ==
    \A j \in 1..Len(outcomes) : \A i \in 1..(j - 1) :
        SameFolder(i, j) =>
            /\ ~(outcomes[i] = "created" /\ outcomes[j] = "created")
            /\ outcomes[j] = "existed"

\* C9 (amended): of two entries with the same folder name at most one is
\* created, and the later one is reported "already existed" whenever the
\* earlier one was created or already existed.
C9_Duplicates ==
    \A j \in 1..Len(outcomes) : \A i \in 1..(j - 1) :
        SameFolder(i, j) =>
            /\ ~(outcomes[i] = "created" /\ outcomes[j] = "created")
            /\ outcomes[i] \in {"created", "existed"} => outcomes[j] = "existed"

\* Two different rows giving one folder name: created, then already existed.
C9_Witness ==
    /\ Len(outcomes) >= 2
    /\ \E j \in 1..Len(outcomes) : \E i \in 1..(j - 1) :
         /\ SameFolder(i, j)
         /\ roster[entries[i].row] # roster[entries[j].row]
         /\ outcomes[i] = "created"
         /\ outcomes[j] = "existed"

\* ---- C10
\* C10 (as claimed): the four counters add up to the entries processed.
C10_Original ==
    stats.created + stats.existed + stats.conflict + stats.failed = Len(outcomes)

\* C10 (amended): every processed entry gets one of the four outcomes;
\* created, existed and failed add up to the entries processed, and an entry
\* whose path exists as a file is counted both as conflict and as failed.
C10_Counters ==
    /\ \A i \in 1..Len(outcomes) :
         outcomes[i] \in {"created", "existed", "conflict", "failed"}
    /\ stats.created = CountOf(outcomes, "created")
    /\ stats.existed = CountOf(outcomes, "existed")
    /\ stats.conflict = CountOf(outcomes, "conflict")
    /\ stats.failed = CountOf(outcomes, "conflict") + CountOf(outcomes, "failed")
    /\ stats.created + stats.existed + stats.failed = Len(outcomes)

\* A finished run that created a folder and met a path existing as a file.
C10_Witness ==
    /\ b_pc = "done"
    /\ Len(outcomes) >= 2
    /\ stats.created >= 1
    /\ stats.conflict >= 1

\* ---- C11
\* The roster has been read: entries holds the rows the loop kept.
RosterRead == b_pc \in {"mkparent", "create", "done", "crashed", "no_entries"}

\* Row i of the roster is one the expected form rules out: an empty cell, a
\* name with fewer than four underscore-separated segments, or a name that,
\* once trimmed, ends in a space or a period.
Malformed(i) ==
    LET cell == roster[i]
        name == Strip(cell.text)
    IN  \/ ~cell.str
        \/ cell.text = <<>>
        \/ Len(Split(name, "_")) < 4
        \/ EndsWith(name, " ")
        \/ EndsWith(name, ".")

RowsKept == {entries[k].row : k \in 1..Len(entries)}

\* C11: once the roster is read, no malformed row (empty, fewer than four
\* underscore-separated segments, trailing space or period) has an entry, so
\* no directory is attempted for it, and every other row after the header
\* has one: a rejected row does not stop the rows after it.
C11_RejectsMalformed ==
    RosterRead =>
        \A i \in 2..Len(roster) : (i \in RowsKept) <=> ~Malformed(i)

\* ---- C12
\* The directory entries of the recipient whose files are being sent, and the
\* entries requests.post has been called with so far.
EntriesNow == se_folders[fidx].entries
Transmitted ==
    {valid_files[log[i].file] :
        i \in {j \in 1..Len(log) : log[j].ev = "post" /\ log[j].folder = fidx}}
HiddenOrTemp(x) == x.name # <<>> /\ x.name[1] \in {"~", "."}

\* C12 (as claimed): in both variants every transmitted entry is a regular
\* file of more than 5000 bytes, and in the variant with is_valid_file its
\* name does not begin with "~" or ".".
C12_Original ==
    InSendLoop =>
        \A x \in Transmitted :
            /\ x.is_file
            /\ x.size > MinSizeDated
            /\ variant = "plain" => ~HiddenOrTemp(x)

\* What each variant lets through.
Sendable(x) ==
    /\ x.is_file
    /\ IF variant = "plain"
         THEN x.size >= MinSizePlain /\ ~HiddenOrTemp(x)
         ELSE x.size > MinSizeDated

\* C12 (amended): the files sent for a recipient are exactly the regular
\* files of its directory that are, in the variant with is_valid_file, of at
\* least 5000 bytes with a name not beginning with "~" or ".", and, in the
\* dated variant, of more than 5000 bytes whatever their name.
C12_Eligible ==
    InSendLoop =>
        /\ valid_files = SelectSeq(EntriesNow, Sendable)
        /\ \A x \in Transmitted : Sendable(x)
        /\ \A i \in 1..Len(sent_files) :
             \E x \in Transmitted : x.name = sent_files[i]

\* The plain variant has sent a file of exactly 5000 bytes from a directory
\* that also holds an entry it skipped.
C12_Witness ==
    /\ variant = "plain"
    /\ InSendLoop
    /\ Len(EntriesNow) >= 2
    /\ Len(valid_files) = 1
    /\ valid_files[1].size = MinSizePlain
    /\ sent_files = <<valid_files[1].name>>

\* ---- C13
\* t is s without its surrounding whitespace.
IsTrimOf(t, s) ==
    \E a \in 1..(Len(s) + 1) : \E b \in 0..Len(s) :
        /\ t = SubSeq(s, a, b)
        /\ \A i \in 1..(a - 1) : IsSpace(s[i])
        /\ \A i \in (b + 1)..Len(s) : IsSpace(s[i])
        /\ t # <<>> => ~IsSpace(t[1]) /\ ~IsSpace(t[Len(t)])

\* The part of s after its first underscore.
AfterFirstUnderscore(s) ==
    LET i == CHOOSE k \in UnderscoresOf(s) : \A j \in UnderscoresOf(s) : k <= j
    IN  SubSeq(s, i + 1, Len(s))

FileChars == FileAlphabet \cup {"x", "l", "s"}

\* C13: the extracted name is always a string; when the stem of the file
\* name holds an underscore it is the part of the stem after the first
\* underscore without its surrounding whitespace, and otherwise the stem
\* without its surrounding whitespace.
C13_ExtractedName ==
    \A i \in 1..Len(analysis) :
        LET stem == Stem(analysis[i].filename)
            name == analysis[i].extracted_name
        IN  /\ name \in Seq(FileChars)
            /\ IF UnderscoresOf(stem) # {}
                 THEN IsTrimOf(name, AfterFirstUnderscore(stem))
                 ELSE IsTrimOf(name, stem)

\* A file name with an extension and two underscores in its stem: the name
\* starts after the first underscore, keeps the second one and loses a
\* surrounding space.
C13_Witness ==
    /\ Len(analysis) = 1
    /\ Stem(analysis[1].filename) # analysis[1].filename
    /\ Cardinality(UnderscoresOf(Stem(analysis[1].filename))) = 2
    /\ Cardinality(UnderscoresOf(analysis[1].extracted_name)) = 1
    /\ Len(analysis[1].extracted_name) = 3
    /\ Len(AfterFirstUnderscore(Stem(analysis[1].filename))) = 4

\* ---- C14
\* Events i and j of the log belong to the same send_file call.
SameCall(i, j) == log[i].folder = log[j].folder /\ log[i].file = log[j].file
IsPost(i) == log[i].ev = "post"
IsWait(i) == log[i].ev = "sleep"
FailedFirst(i) == IsPost(i) /\ log[i].attempt = 0 /\ ~log[i].good
WaitsOf(i) == {j \in 1..Len(log) : IsWait(j) /\ SameCall(i, j)}

\* C14: send_file waits once for a file exactly when its first attempt
\* failed, rejected or raised alike: the wait comes right after the failed
\* first attempt and right before the second one, and neither a successful
\* attempt nor a second attempt is followed by a wait.
C14_BackoffOnce ==
    \A i \in 1..Len(log) :
        /\ IsWait(i) =>
              /\ i > 1 /\ FailedFirst(i - 1) /\ SameCall(i - 1, i)
              /\ i < Len(log) =>
                    IsPost(i + 1) /\ log[i + 1].attempt = 1 /\ SameCall(i, i + 1)
              /\ i = Len(log) => pc = "post" /\ attempt = 1
        /\ FailedFirst(i) =>
              /\ i < Len(log) => IsWait(i + 1) /\ SameCall(i, i + 1)
              /\ i = Len(log) => pc = "sleep"
              /\ pc # "sleep" \/ i < Len(log) => Cardinality(WaitsOf(i)) = 1
        /\ (IsPost(i) /\ ~FailedFirst(i)) =>
              /\ i < Len(log) =>
                    IsPost(i + 1) /\ log[i + 1].attempt = 0 /\ ~SameCall(i, i + 1)
              /\ i = Len(log) => pc # "sleep"
              /\ log[i].attempt = 0 => WaitsOf(i) = {}
              /\ log[i].attempt = 1 => Cardinality(WaitsOf(i)) = 1

\* One file sent at its first attempt, with no wait, and one whose first
\* attempt failed and whose second attempt, after the wait, was rejected.
C14_Witness ==
    /\ Len(log) = 4
    /\ IsPost(1) /\ log[1].good
    /\ FailedFirst(2) /\ IsWait(3) /\ IsPost(4) /\ ~log[4].good
    /\ Len(failed_files) = 1
    /\ failed_files[1].error = "Bad Request: chat not found"
====
